---- MODULE Spec2Model ----
(***************************************************************************)
(* Model of the permashift live-recording controller (src/permashift.c).   *)
(*                                                                         *)
(* The controller is a set of callbacks the host (VDR) invokes on its main *)
(* thread, one at a time.  The variables are the plugin's fields and       *)
(* globals, the host collections the plugin reads and writes (timer list,  *)
(* timer objects, recording index, persisted timer list) and the position  *)
(* of the entry point that is running (pc).  An entry point that calls     *)
(* back into the host is cut at those calls, because the host's answer     *)
(* (its notifications included) is the environment's choice; while pc is   *)
(* not "idle" only the running entry point can take a step.  Every entry   *)
(* point ends in pc = "ret", where `call` holds its arguments and the      *)
(* state it was entered in, `ret` the value StartLiveRecording or          *)
(* StopLiveRecording reported and `trace` the calls it made; Return hands  *)
(* control back to the host's main loop.                                   *)
(***************************************************************************)
EXTENDS Integers, Sequences, FiniteSets, TLC

VARIABLES
    g_enablePlugin,       \* bool g_enablePlugin
    g_maxLength,          \* int g_maxLength
    m_liveTimer,          \* cTimer* m_liveTimer (NoTimer = NULL)
    m_fileName,           \* const char* m_fileName (NoFile = NULL)
    m_startingRecording,  \* bool m_startingRecording
    m_stoppingRecording,  \* bool m_stoppingRecording
    m_mainThreadCounter,  \* int m_mainThreadCounter
    Timers,               \* host: the timers in the global timer list
    timer,                \* host: the fields of each timer object
    Recordings,           \* host: the file names in the recording index
    savedTimers,          \* host: the timer list as last persisted by Timers.Save()
    settings,             \* host: the plugin's entries in the persisted setup
    pc,                   \* position of the running entry point
    fileName,             \* StopLiveRecording's local char* fileName
    ret,                  \* value the running entry point's operation reported
    call,                 \* the running entry point, its arguments and entry state
    trace,                \* calls made by the running entry point, in order
    held                  \* history: timers claimed and not yet given up

vars == <<g_enablePlugin, g_maxLength, m_liveTimer, m_fileName,
          m_startingRecording, m_stoppingRecording, m_mainThreadCounter,
          Timers, timer, Recordings, savedTimers, settings,
          pc, fileName, ret, call, trace>>

pluginVars == <<g_enablePlugin, g_maxLength, m_liveTimer, m_fileName,
                m_startingRecording, m_stoppingRecording, m_mainThreadCounter>>
hostVars == <<Timers, timer, Recordings, savedTimers, settings>>

-----------------------------------------------------------------------------
(* Bounds of the model *)

\* number of timer objects (addresses) the host can hand out
MaxTimers == 2

-----------------------------------------------------------------------------
(* Program and host constants *)

NoTimer == 0                 \* NULL timer pointer
NoFile == 0                  \* NULL file name
TRANSFERPRIORITY == -1       \* vdr/config.h, used at line 299
PausePriority == 10          \* Setup.PausePriority, read at line 230
PauseLifetime == 1           \* Setup.PauseLifetime, read at line 230
IdleTicks == 60              \* threshold of m_mainThreadCounter, line 151
EXPIRECANCELPROMPT == 300    \* line 15
MenuMinLength == 1           \* cMenuEditIntItem range, line 376
MenuMaxLength == 23          \* cMenuEditIntItem range, line 376

TimerIds == 1..MaxTimers

\* channel numbers the host's channel directory knows
Channels == {1}
\* channel numbers delivered with a channel-switch notification
ChannelNumbers == {-1, 0, 1, 2}

\* the file name the host gives the recording of timer t
FileOf(t) == t
Files == {FileOf(t) : t \in TimerIds}

\* keys the confirmation prompt can end with; kNone is the timeout
Keys == {"kNone", "kOk", "kBack"}

\* a timer object that is not allocated
NilTimer == [Priority |-> 0, Lifetime |-> 0, Start |-> 0, Stop |-> 0,
             Recording |-> FALSE, Skipped |-> FALSE]

-----------------------------------------------------------------------------
(* Pure functions *)

\* NewStopTime without the step back over midnight
NewStopTime_NoWrap(start, maxLength) ==
    LET startMin == (start \div 100) * 60 + (start % 100)
        newStopMin == startMin + maxLength * 60
    IN  (newStopMin \div 60) * 100 + (newStopMin % 60)

\* lines 301-306: the stop time TimerChange writes, from the timer's start
\* time (HHMM) and g_maxLength
NewStopTime(start, maxLength) ==
    LET startMin == (start \div 100) * 60 + (start % 100)
        newStopMin == startMin + maxLength * 60
        hhmm == (newStopMin \div 60) * 100 + (newStopMin % 60)
    IN  IF hhmm >= 2400 THEN hhmm - 2400 ELSE hhmm

\* IsPromoted with the lifetime test left out
IsPromoted_PriorityOnly(tm) == tm.Priority > PausePriority

\* IsPromoted with && in place of ||
IsPromoted_Both(tm) ==
    tm.Priority > PausePriority /\ tm.Lifetime > PauseLifetime

\* line 230: the timer was promoted and is not ours to delete
IsPromoted(tm) ==
    tm.Priority > PausePriority \/ tm.Lifetime > PauseLifetime

\* ThresholdReached on the value after the increment
ThresholdReached_Incremented(counter) == counter + 1 >= IdleTicks

\* line 151: m_mainThreadCounter++ >= 60, on the value before the increment
ThresholdReached(counter) == counter >= IdleTicks

\* cInterface::Confirm(s, Seconds, WaitForTimeout = true) at line 157: true
\* when the prompt ran into its timeout without a key
Confirm(key) == key = "kNone"

\* characters are one-character strings, C strings are sequences of them
Digits == <<"0", "1", "2", "3", "4", "5", "6", "7", "8", "9">>
IsDigit(c) == \E i \in 1..10 : Digits[i] = c
DigitValue(c) == (CHOOSE i \in 1..10 : Digits[i] = c) - 1

RECURSIVE SkipSpace(_)
SkipSpace(s) == IF s # <<>> /\ Head(s) = " " THEN SkipSpace(Tail(s)) ELSE s

RECURSIVE ParseDigits(_, _)
ParseDigits(s, acc) ==
    IF s # <<>> /\ IsDigit(Head(s))
    THEN ParseDigits(Tail(s), acc * 10 + DigitValue(Head(s)))
    ELSE acc

\* atoi(Value) at line 364
atoi(s) ==
    LET t == SkipSpace(s)
    IN  IF t = <<>> THEN 0
        ELSE IF Head(t) = "-" THEN 0 - ParseDigits(Tail(t), 0)
        ELSE IF Head(t) = "+" THEN ParseDigits(Tail(t), 0)
        ELSE ParseDigits(t, 0)

\* itoa that keeps the last digit only
itoa_LastDigit(n) == <<Digits[(n % 10) + 1]>>

RECURSIVE itoa(_)
\* SetupStore(Name, int) at lines 383-384: the decimal string of n >= 0
itoa(n) == IF n < 10 THEN <<Digits[n + 1]>>
           ELSE Append(itoa(n \div 10), Digits[(n % 10) + 1])

-----------------------------------------------------------------------------
(* The callbacks, as functions of the state they read and write.           *)
(* S is [live, file, tm, recs, starting, stopping, maxLength]: m_liveTimer,*)
(* m_fileName, the timer objects, the recording index, the two flags and   *)
(* g_maxLength.                                                            *)

Cur == [live |-> m_liveTimer, file |-> m_fileName, tm |-> timer,
        recs |-> Recordings, starting |-> m_startingRecording,
        stopping |-> m_stoppingRecording, maxLength |-> g_maxLength]

\* DeleteRecordingByName with the deletion left out
DeleteRecordingByName_Never(recs, name, deleteOk) == recs

\* lines 261-266 and 317-323: Recordings.GetByName(name), recording->Delete()
\* (deleteOk is the host's answer) and Recordings.DelByName(name)
DeleteRecordingByName(recs, name, deleteOk) ==
    IF name \in recs /\ deleteOk THEN recs \ {name} ELSE recs

\* TimerChangeAdd without the test of m_startingRecording
TimerChangeAdd_Always(S, Timer) ==
    [S EXCEPT !.live = Timer,
              !.tm[Timer].Priority = TRANSFERPRIORITY - 1,
              !.tm[Timer].Stop = NewStopTime(S.tm[Timer].Start, S.maxLength)]

\* lines 291-309: Change == tcAdd
TimerChangeAdd(S, Timer) ==
    IF S.starting
    THEN [S EXCEPT !.live = Timer,
                   !.tm[Timer].Priority = TRANSFERPRIORITY - 1,
                   !.tm[Timer].Stop = NewStopTime(S.tm[Timer].Start, S.maxLength)]
    ELSE S

\* TimerChangeDel without the test of m_stoppingRecording
TimerChangeDel_Reentrant(S, Timer, single, past, deleteOk) ==
    IF Timer = S.live
    THEN [S EXCEPT !.recs = IF single /\ ~S.tm[Timer].Recording /\ past
                            THEN DeleteRecordingByName(S.recs, S.file, deleteOk)
                            ELSE @,
                   !.live = NoTimer]
    ELSE S

\* lines 310-328: Change == tcDel; single is Timer->IsSingleEvent(), past is
\* Timer->StopTime() <= time(NULL), deleteOk the answer of recording->Delete()
TimerChangeDel(S, Timer, single, past, deleteOk) ==
    IF ~S.stopping /\ Timer = S.live
    THEN [S EXCEPT !.recs = IF single /\ ~S.tm[Timer].Recording /\ past
                            THEN DeleteRecordingByName(S.recs, S.file, deleteOk)
                            ELSE @,
                   !.live = NoTimer]
    ELSE S

\* lines 287-329
TimerChange(S, Timer, Change, single, past, deleteOk) ==
    IF Timer = NoTimer THEN S
    ELSE IF Change = "tcAdd" THEN TimerChangeAdd(S, Timer)
    ELSE IF Change = "tcDel" THEN TimerChangeDel(S, Timer, single, past, deleteOk)
    ELSE S

\* Recording without the test of m_startingRecording
Recording_AnyStart(S, FileName, On) ==
    IF On THEN [S EXCEPT !.file = FileName] ELSE S

\* lines 331-342
Recording(S, FileName, On) ==
    IF On /\ S.starting THEN [S EXCEPT !.file = FileName] ELSE S

-----------------------------------------------------------------------------
(* Initial state: after the constructor, lines 116-123 *)

\* Setup.InstantRecordTime (minutes) when the plugin is constructed
InstantRecordTimes == {150}

Pre == [live |-> m_liveTimer, file |-> m_fileName, Timers |-> Timers,
        timer |-> timer, Recordings |-> Recordings,
        enabled |-> g_enablePlugin, maxLength |-> g_maxLength,
        counter |-> m_mainThreadCounter, saved |-> savedTimers,
        held |-> held]

NoCall == [op |-> "none"]

\* a setup entry that was never stored
NoEntry == <<"<none>">>

InitWith(instantRecordTimes) ==
    /\ g_enablePlugin = TRUE
    /\ \E irt \in instantRecordTimes : g_maxLength = irt \div 60
    /\ m_liveTimer = NoTimer
    /\ m_fileName = NoFile
    /\ m_startingRecording = FALSE
    /\ m_stoppingRecording = FALSE
    /\ m_mainThreadCounter = 0
    /\ Timers = {}
    /\ timer = [t \in TimerIds |-> NilTimer]
    /\ Recordings = {}
    /\ savedTimers = {}
    /\ settings = [EnablePlugin |-> NoEntry, MaxTimeshiftLength |-> NoEntry]
    /\ pc = "idle"
    /\ fileName = NoFile
    /\ ret = "none"
    /\ call = NoCall
    /\ trace = <<>>
    /\ held = {}

Init == InitWith(InstantRecordTimes)

-----------------------------------------------------------------------------
(* Entry points.  Enter(op, args) is the host invoking one from its main   *)
(* loop; After(op) is where the entry point continues once                 *)
(* StopLiveRecording has returned to it.                                   *)

Enter(op, args) ==
    /\ pc = "idle"
    /\ call' = [op |-> op, args |-> args, pre |-> Pre]

After(op) ==
    CASE op = "Stop" -> "save"
      [] op = "MainThreadHook" -> "reset"
      [] OTHER -> "ret"

Assign(S) ==
    /\ m_liveTimer' = S.live
    /\ m_fileName' = S.file
    /\ timer' = S.tm
    /\ Recordings' = S.recs

\* StartLiveRecording without the test of g_enablePlugin
StartLiveRecording_Unguarded(channelNumber) ==
    IF channelNumber \notin Channels
    THEN /\ ret' = FALSE
         /\ pc' = "ret"
         /\ trace' = <<"StartLiveRecording", "GetByNumber">>
         /\ UNCHANGED <<pluginVars, hostVars, fileName>>
    ELSE /\ m_startingRecording' = TRUE
         /\ pc' = "start"
         /\ trace' = <<"StartLiveRecording", "GetByNumber">>
         /\ UNCHANGED <<g_enablePlugin, g_maxLength, m_liveTimer, m_fileName,
                        m_stoppingRecording, m_mainThreadCounter,
                        hostVars, fileName, ret>>

\* StartLiveRecording without the test of the channel
StartLiveRecording_AnyChannel(channelNumber) ==
    IF ~g_enablePlugin
    THEN /\ ret' = TRUE
         /\ pc' = "ret"
         /\ trace' = <<"StartLiveRecording">>
         /\ UNCHANGED <<pluginVars, hostVars, fileName>>
    ELSE /\ m_startingRecording' = TRUE
         /\ pc' = "start"
         /\ trace' = <<"StartLiveRecording", "GetByNumber">>
         /\ UNCHANGED <<g_enablePlugin, g_maxLength, m_liveTimer, m_fileName,
                        m_stoppingRecording, m_mainThreadCounter,
                        hostVars, fileName, ret>>

\* lines 182-194: StartLiveRecording up to the call of cRecordControls::Start
StartLiveRecording(channelNumber) ==
    IF ~g_enablePlugin
    THEN /\ ret' = TRUE
         /\ pc' = "ret"
         /\ trace' = <<"StartLiveRecording">>
         /\ UNCHANGED <<pluginVars, hostVars, fileName>>
    ELSE IF channelNumber \notin Channels
    THEN /\ ret' = FALSE
         /\ pc' = "ret"
         /\ trace' = <<"StartLiveRecording", "GetByNumber">>
         /\ UNCHANGED <<pluginVars, hostVars, fileName>>
    ELSE /\ m_startingRecording' = TRUE
         /\ pc' = "start"
         /\ trace' = <<"StartLiveRecording", "GetByNumber">>
         /\ UNCHANGED <<g_enablePlugin, g_maxLength, m_liveTimer, m_fileName,
                        m_stoppingRecording, m_mainThreadCounter,
                        hostVars, fileName, ret>>

\* StopLiveRecording without the validity loop of lines 210-226
StopLiveRecording_Unchecked(op, calls) ==
    IF ~g_enablePlugin \/ m_liveTimer = NoTimer
    THEN /\ ret' = TRUE
         /\ pc' = After(op)
         /\ trace' = calls \o <<"StopLiveRecording">>
         /\ UNCHANGED <<g_enablePlugin, g_maxLength, m_liveTimer, m_fileName,
                        m_startingRecording, m_stoppingRecording,
                        hostVars, fileName>>
    ELSE IF IsPromoted(timer[m_liveTimer])
    THEN /\ m_liveTimer' = NoTimer
         /\ ret' = TRUE
         /\ pc' = After(op)
         /\ trace' = calls \o <<"StopLiveRecording">>
         /\ UNCHANGED <<g_enablePlugin, g_maxLength, m_fileName,
                        m_startingRecording, m_stoppingRecording,
                        hostVars, fileName>>
    ELSE /\ fileName' = IF timer[m_liveTimer].Recording
                        THEN FileOf(m_liveTimer) ELSE NoFile
         /\ m_stoppingRecording' = TRUE
         /\ pc' = "skip"
         /\ trace' = calls \o <<"StopLiveRecording", "GetRecordControl">>
         /\ UNCHANGED <<g_enablePlugin, g_maxLength, m_liveTimer, m_fileName,
                        m_startingRecording, hostVars, ret>>

\* lines 201-246: StopLiveRecording up to m_stoppingRecording = true;
\* op is the entry point that calls it, calls the calls made before it
StopLiveRecording(op, calls) ==
    IF ~g_enablePlugin \/ m_liveTimer = NoTimer
    THEN /\ ret' = TRUE
         /\ pc' = After(op)
         /\ trace' = calls \o <<"StopLiveRecording">>
         /\ UNCHANGED <<g_enablePlugin, g_maxLength, m_liveTimer, m_fileName,
                        m_startingRecording, m_stoppingRecording,
                        hostVars, fileName>>
    ELSE IF m_liveTimer \notin Timers
    THEN /\ m_liveTimer' = NoTimer
         /\ ret' = FALSE
         /\ pc' = After(op)
         /\ trace' = calls \o <<"StopLiveRecording">>
         /\ UNCHANGED <<g_enablePlugin, g_maxLength, m_fileName,
                        m_startingRecording, m_stoppingRecording,
                        hostVars, fileName>>
    ELSE IF IsPromoted(timer[m_liveTimer])
    THEN /\ m_liveTimer' = NoTimer
         /\ ret' = TRUE
         /\ pc' = After(op)
         /\ trace' = calls \o <<"StopLiveRecording">>
         /\ UNCHANGED <<g_enablePlugin, g_maxLength, m_fileName,
                        m_startingRecording, m_stoppingRecording,
                        hostVars, fileName>>
    ELSE /\ fileName' = IF timer[m_liveTimer].Recording
                        THEN FileOf(m_liveTimer) ELSE NoFile
         /\ m_stoppingRecording' = TRUE
         /\ pc' = "skip"
         /\ trace' = calls \o <<"StopLiveRecording", "GetRecordControl">>
         /\ UNCHANGED <<g_enablePlugin, g_maxLength, m_liveTimer, m_fileName,
                        m_startingRecording, hostVars, ret>>

\* ChannelSwitch with StopLiveRecording called for a switch that is not for
\* live view
ChannelSwitch_StopsNonLive(channelNumber, liveView) ==
    /\ Enter("ChannelSwitch",
             [channelNumber |-> channelNumber, liveView |-> liveView])
    /\ IF liveView /\ channelNumber > 0
       THEN StartLiveRecording(channelNumber)
       ELSE /\ StopLiveRecording("ChannelSwitch", <<>>)
            /\ UNCHANGED m_mainThreadCounter

\* lines 167-180
ChannelSwitch(channelNumber, liveView) ==
    /\ Enter("ChannelSwitch",
             [channelNumber |-> channelNumber, liveView |-> liveView])
    /\ IF liveView
       THEN IF channelNumber > 0
            THEN StartLiveRecording(channelNumber)
            ELSE /\ StopLiveRecording("ChannelSwitch", <<>>)
                 /\ UNCHANGED m_mainThreadCounter
       ELSE /\ pc' = "ret"
            /\ UNCHANGED <<pluginVars, hostVars, fileName, ret, trace>>

\* the host's initial stop time of an instant timer starting at `start`
HostStopTime(start) ==
    LET m == ((start \div 100) * 60 + (start % 100) + 150) % 1440
    IN  (m \div 60) * 100 + (m % 60)

\* the object the host constructs for a timer
NewTimer(priority, lifetime, start) ==
    [Priority |-> priority, Lifetime |-> lifetime, Start |-> start,
     Stop |-> HostStopTime(start), Recording |-> FALSE, Skipped |-> FALSE]

\* start times (HHMM) the host gives the timers it creates
StartTimes == {2330}

\* what cRecordControls::Start can do: nothing (no device), add the timer
\* and start the recording, add the timer only, add it and delete it again
StartOutcomes == {"none", "recording", "timer", "failed"}

\* lines 195-198: cRecordControls::Start(NULL, true) with the notifications
\* the host delivers inside it, then the flag is reset and true returned
RecordControlsStart(outcome, t, start, single, past, deleteOk) ==
    /\ pc = "start"
    /\ LET S0 == [Cur EXCEPT !.tm[t] = NewTimer(PausePriority, PauseLifetime, start)]
           S1 == TimerChange(S0, t, "tcAdd", single, past, deleteOk)
           S2 == Recording([S1 EXCEPT !.tm[t].Recording = TRUE,
                                      !.recs = @ \cup {FileOf(t)}],
                           FileOf(t), TRUE)
           S3 == TimerChange([S1 EXCEPT !.tm[t].Recording = TRUE],
                             t, "tcDel", single, past, deleteOk)
       IN  CASE outcome = "none" ->
                    /\ UNCHANGED <<m_liveTimer, m_fileName, timer, Recordings, Timers>>
             [] outcome = "recording" ->
                    /\ t \notin Timers
                    /\ Assign(S2)
                    /\ Timers' = Timers \cup {t}
             [] outcome = "timer" ->
                    /\ t \notin Timers
                    /\ Assign(S1)
                    /\ Timers' = Timers \cup {t}
             [] outcome = "failed" ->
                    /\ t \notin Timers
                    /\ Assign([S3 EXCEPT !.tm[t] = NilTimer])
                    /\ UNCHANGED Timers
    /\ m_startingRecording' = FALSE
    /\ ret' = TRUE
    /\ pc' = "ret"
    /\ trace' = Append(trace, "cRecordControls::Start")
    /\ UNCHANGED <<g_enablePlugin, g_maxLength, m_stoppingRecording,
                   m_mainThreadCounter, savedTimers, settings, fileName, call>>

\* lines 248-249: m_liveTimer->Skip()
StopSkip ==
    /\ pc = "skip"
    /\ timer' = [timer EXCEPT ![m_liveTimer].Skipped = TRUE]
    /\ pc' = "process"
    /\ trace' = Append(trace, "Skip")
    /\ UNCHANGED <<pluginVars, Timers, Recordings, savedTimers, settings,
                   fileName, ret, call>>

\* StopLiveRecording going on to Timers.Del without cRecordControls::Process
StopProcess_Left ==
    /\ pc = "process"
    /\ pc' = "del"
    /\ UNCHANGED <<pluginVars, hostVars, fileName, ret, call, trace>>

\* lines 251-252: cRecordControls::Process(time(NULL)): the host ends the
\* recording of every skipped timer and reports each with Recording(.., false)
StopProcess ==
    /\ pc = "process"
    /\ LET stopped == {t \in Timers : timer[t].Skipped /\ timer[t].Recording}
           S0 == [Cur EXCEPT !.tm = [t \in TimerIds |->
                                 IF t \in stopped
                                 THEN [timer[t] EXCEPT !.Recording = FALSE]
                                 ELSE timer[t]]]
           S1 == IF stopped = {} THEN S0
                 ELSE Recording(S0, FileOf(CHOOSE t \in stopped : TRUE), FALSE)
       IN  Assign(S1)
    /\ pc' = "del"
    /\ trace' = Append(trace, "Process")
    /\ UNCHANGED <<g_enablePlugin, g_maxLength, m_startingRecording,
                   m_stoppingRecording, m_mainThreadCounter, Timers,
                   savedTimers, settings, fileName, ret, call>>

\* lines 254-256: Timers.Del(m_liveTimer), which notifies TimerChange(tcDel)
\* before it unlinks and frees the timer
StopDelTimer(single, past, deleteOk) ==
    /\ pc = "del"
    /\ LET S1 == TimerChange(Cur, m_liveTimer, "tcDel", single, past, deleteOk)
       IN  Assign([S1 EXCEPT !.tm[m_liveTimer] = NilTimer])
    /\ Timers' = Timers \ {m_liveTimer}
    /\ pc' = "delrec"
    /\ trace' = Append(trace, "Timers.Del")
    /\ UNCHANGED <<g_enablePlugin, g_maxLength, m_startingRecording,
                   m_stoppingRecording, m_mainThreadCounter,
                   savedTimers, settings, fileName, ret, call>>

\* StopDelRecording that keeps the claim and reports failure when the
\* recording was not deleted
StopDelRecording_Failing(deleteOk) ==
    /\ pc = "delrec"
    /\ LET deleted == fileName # NoFile /\ fileName \in Recordings /\ deleteOk
       IN  /\ Recordings' = IF deleted THEN Recordings \ {fileName} ELSE Recordings
           /\ m_liveTimer' = IF deleted THEN NoTimer ELSE m_liveTimer
           /\ ret' = deleted
    /\ m_stoppingRecording' = FALSE
    /\ fileName' = NoFile
    /\ pc' = After(call.op)
    /\ trace' = Append(trace, "Recordings.GetByName")
    /\ UNCHANGED <<g_enablePlugin, g_maxLength, m_fileName, m_startingRecording,
                   m_mainThreadCounter, Timers, timer, savedTimers, settings, call>>

\* StopDelRecording without m_stoppingRecording = false
StopDelRecording_Unreset(deleteOk) ==
    /\ pc = "delrec"
    /\ Recordings' = IF fileName # NoFile
                     THEN DeleteRecordingByName(Recordings, fileName, deleteOk)
                     ELSE Recordings
    /\ m_liveTimer' = NoTimer
    /\ fileName' = NoFile
    /\ ret' = TRUE
    /\ pc' = After(call.op)
    /\ trace' = Append(trace, "Recordings.GetByName")
    /\ UNCHANGED <<g_enablePlugin, g_maxLength, m_fileName, m_startingRecording,
                   m_stoppingRecording, m_mainThreadCounter, Timers, timer,
                   savedTimers, settings, call>>

\* lines 258-284: delete the recording, reset the flag and the claim
StopDelRecording(deleteOk) ==
    /\ pc = "delrec"
    /\ Recordings' = IF fileName # NoFile
                     THEN DeleteRecordingByName(Recordings, fileName, deleteOk)
                     ELSE Recordings
    /\ m_stoppingRecording' = FALSE
    /\ m_liveTimer' = NoTimer
    /\ fileName' = NoFile
    /\ ret' = TRUE
    /\ pc' = After(call.op)
    /\ trace' = trace \o
                (IF fileName = NoFile THEN <<>>
                 ELSE IF fileName \notin Recordings THEN <<"Recordings.GetByName">>
                 ELSE IF ~deleteOk THEN <<"Recordings.GetByName", "recording->Delete">>
                 ELSE <<"Recordings.GetByName", "recording->Delete",
                        "Recordings.DelByName">>)
    /\ UNCHANGED <<g_enablePlugin, g_maxLength, m_fileName, m_startingRecording,
                   m_mainThreadCounter, Timers, timer, savedTimers, settings, call>>

\* lines 147-165: inactive is ShutdownHandler.IsUserInactive(), key the key
\* that ends the prompt
MainThreadHook(inactive, key) ==
    /\ LET asked == ThresholdReached(m_mainThreadCounter) /\ m_liveTimer # NoTimer
       IN  Enter("MainThreadHook",
                 [inactive |-> inactive,
                  key |-> IF asked /\ inactive THEN key ELSE "unread"])
    /\ IF ThresholdReached(m_mainThreadCounter)
       THEN /\ m_mainThreadCounter' = m_mainThreadCounter + 1
            /\ IF m_liveTimer # NoTimer /\ inactive
               THEN IF Confirm(key)
                    THEN StopLiveRecording("MainThreadHook",
                                           <<"IsUserInactive", "Confirm">>)
                    ELSE /\ pc' = "reset"
                         /\ trace' = <<"IsUserInactive", "Confirm">>
                         /\ UNCHANGED <<g_enablePlugin, g_maxLength, m_liveTimer,
                                        m_fileName, m_startingRecording,
                                        m_stoppingRecording, hostVars, fileName, ret>>
               ELSE /\ pc' = "reset"
                    /\ trace' = IF m_liveTimer # NoTimer
                                THEN <<"IsUserInactive">> ELSE <<>>
                    /\ UNCHANGED <<g_enablePlugin, g_maxLength, m_liveTimer,
                                   m_fileName, m_startingRecording,
                                   m_stoppingRecording, hostVars, fileName, ret>>
       ELSE /\ m_mainThreadCounter' = m_mainThreadCounter + 1
            /\ pc' = "ret"
            /\ UNCHANGED <<g_enablePlugin, g_maxLength, m_liveTimer,
                           m_fileName, m_startingRecording,
                           m_stoppingRecording, hostVars, fileName, ret, trace>>

\* line 163: m_mainThreadCounter = 0
HookReset ==
    /\ pc = "reset"
    /\ m_mainThreadCounter' = 0
    /\ pc' = "ret"
    /\ UNCHANGED <<g_enablePlugin, g_maxLength, m_liveTimer, m_fileName,
                   m_startingRecording, m_stoppingRecording, hostVars,
                   fileName, ret, call, trace>>

\* lines 137-141: Stop() up to the return of StopLiveRecording
Stop ==
    /\ Enter("Stop", [none |-> TRUE])
    /\ StopLiveRecording("Stop", <<>>)
    /\ UNCHANGED m_mainThreadCounter

\* Timers.Save() writing the list as it was before StopLiveRecording
TimersSave_Before ==
    /\ pc = "save"
    /\ savedTimers' = call.pre.Timers
    /\ pc' = "ret"
    /\ trace' = Append(trace, "Timers.Save")
    /\ UNCHANGED <<pluginVars, Timers, timer, Recordings, settings,
                   fileName, ret, call>>

\* lines 142-144: Timers.Save()
TimersSave ==
    /\ pc = "save"
    /\ savedTimers' = Timers
    /\ pc' = "ret"
    /\ trace' = Append(trace, "Timers.Save")
    /\ UNCHANGED <<pluginVars, Timers, timer, Recordings, settings,
                   fileName, ret, call>>

\* the entry point returns to the host; after Stop() the host shuts down
Return ==
    /\ pc = "ret"
    /\ pc' = IF call.op = "Stop" THEN "halted" ELSE "idle"
    /\ call' = NoCall
    /\ ret' = "none"
    /\ trace' = <<>>
    /\ UNCHANGED <<pluginVars, hostVars, fileName>>

-----------------------------------------------------------------------------
(* Notifications the host delivers for what others do *)

\* somebody else adds timer t: Timers.Add notifies TimerChange(t, tcAdd)
HostAddTimer(t, priority, lifetime, start) ==
    /\ Enter("TimerChange", [Timer |-> t, Change |-> "tcAdd"])
    /\ t \notin Timers
    /\ Assign(TimerChange([Cur EXCEPT !.tm[t] = NewTimer(priority, lifetime, start)],
                          t, "tcAdd", FALSE, FALSE, FALSE))
    /\ Timers' = Timers \cup {t}
    /\ pc' = "ret"
    /\ UNCHANGED <<g_enablePlugin, g_maxLength, m_startingRecording,
                   m_stoppingRecording, m_mainThreadCounter,
                   savedTimers, settings, fileName, ret, trace>>

\* somebody else deletes timer t (the user, or the host when it has expired):
\* Timers.Del notifies TimerChange(t, tcDel), then unlinks and frees it
HostDelTimer(t, single, past, deleteOk) ==
    /\ LET ours == ~m_stoppingRecording /\ t = m_liveTimer
           expired == ours /\ single /\ ~timer[t].Recording /\ past
       IN  Enter("TimerChange",
                 [Timer |-> t, Change |-> "tcDel",
                  single |-> IF ours THEN single ELSE "unread",
                  past |-> IF ours /\ single /\ ~timer[t].Recording
                           THEN past ELSE "unread",
                  deleteOk |-> IF expired /\ m_fileName \in Recordings
                               THEN deleteOk ELSE "unread"])
    /\ t \in Timers
    /\ LET S1 == TimerChange(Cur, t, "tcDel", single, past, deleteOk)
       IN  Assign([S1 EXCEPT !.tm[t] = NilTimer])
    /\ Timers' = Timers \ {t}
    /\ pc' = "ret"
    /\ UNCHANGED <<g_enablePlugin, g_maxLength, m_startingRecording,
                   m_stoppingRecording, m_mainThreadCounter,
                   savedTimers, settings, fileName, ret, trace>>

\* a timer-change notification without a timer, line 289
TimerChangeNull(change) ==
    /\ Enter("TimerChange", [Timer |-> NoTimer, Change |-> change])
    /\ Assign(TimerChange(Cur, NoTimer, change, FALSE, FALSE, FALSE))
    /\ pc' = "ret"
    /\ UNCHANGED <<g_enablePlugin, g_maxLength, m_startingRecording,
                   m_stoppingRecording, m_mainThreadCounter, Timers,
                   savedTimers, settings, fileName, ret, trace>>

\* the host starts or ends the recording of timer t on its own and reports
\* it with Recording(.., FileOf(t), on)
HostRecording(t, on) ==
    /\ Enter("Recording", [FileName |-> FileOf(t), On |-> on])
    /\ t \in Timers
    /\ timer[t].Recording # on
    /\ Assign(Recording([Cur EXCEPT !.tm[t].Recording = on,
                                    !.recs = IF on THEN @ \cup {FileOf(t)} ELSE @],
                        FileOf(t), on))
    /\ pc' = "ret"
    /\ UNCHANGED <<g_enablePlugin, g_maxLength, m_startingRecording,
                   m_stoppingRecording, m_mainThreadCounter, Timers,
                   savedTimers, settings, fileName, ret, trace>>

\* somebody edits timer t's priority
HostSetPriority(t, priority) ==
    /\ pc = "idle"
    /\ t \in Timers
    /\ timer' = [timer EXCEPT ![t].Priority = priority]
    /\ UNCHANGED <<pluginVars, Timers, Recordings, savedTimers, settings,
                   pc, fileName, ret, call, trace>>

\* somebody edits timer t's lifetime
HostSetLifetime(t, lifetime) ==
    /\ pc = "idle"
    /\ t \in Timers
    /\ timer' = [timer EXCEPT ![t].Lifetime = lifetime]
    /\ UNCHANGED <<pluginVars, Timers, Recordings, savedTimers, settings,
                   pc, fileName, ret, call, trace>>

\* timer t leaves the host's list without a notification (the case the
\* validity check of lines 210-226 is there for)
HostDropTimer(t) ==
    /\ pc = "idle"
    /\ t \in Timers
    /\ Timers' = Timers \ {t}
    /\ timer' = [timer EXCEPT ![t] = NilTimer]
    /\ UNCHANGED <<pluginVars, Recordings, savedTimers, settings,
                   pc, fileName, ret, call, trace>>

\* somebody else removes recording f from the index
HostDelRecording(f) ==
    /\ pc = "idle"
    /\ f \in Recordings
    /\ Recordings' = Recordings \ {f}
    /\ UNCHANGED <<pluginVars, Timers, timer, savedTimers, settings,
                   pc, fileName, ret, call, trace>>

-----------------------------------------------------------------------------
(* Settings *)

\* lines 355-368
SetupParse(Name, Value) ==
    /\ Enter("SetupParse", [Name |-> Name, Value |-> Value])
    /\ IF Name = "EnablePlugin"
       THEN /\ g_enablePlugin' = (Value = <<"1">>)
            /\ ret' = TRUE
            /\ UNCHANGED g_maxLength
       ELSE IF Name = "MaxTimeshiftLength"
       THEN /\ g_maxLength' = atoi(Value)
            /\ ret' = TRUE
            /\ UNCHANGED g_enablePlugin
       ELSE /\ ret' = FALSE
            /\ UNCHANGED <<g_enablePlugin, g_maxLength>>
    /\ pc' = "ret"
    /\ UNCHANGED <<m_liveTimer, m_fileName, m_startingRecording,
                   m_stoppingRecording, m_mainThreadCounter, hostVars,
                   fileName, trace>>

\* the host loads the persisted entry Name
SetupLoad(Name) ==
    /\ settings[Name] # NoEntry
    /\ SetupParse(Name, settings[Name])

\* lines 371-385: the settings page is opened on the current values (the
\* integer item clamps to its range), edited to newEnablePlugin and
\* newMaxLength, and committed
Store(newEnablePlugin, newMaxLength) ==
    /\ Enter("Store", [newEnablePlugin |-> newEnablePlugin,
                       newMaxLength |-> newMaxLength])
    /\ newMaxLength \in MenuMinLength..MenuMaxLength
    /\ g_enablePlugin' = (newEnablePlugin # 0)
    /\ g_maxLength' = newMaxLength
    /\ settings' = [EnablePlugin |-> itoa(newEnablePlugin),
                    MaxTimeshiftLength |-> itoa(newMaxLength)]
    /\ pc' = "ret"
    /\ UNCHANGED <<m_liveTimer, m_fileName, m_startingRecording,
                   m_stoppingRecording, m_mainThreadCounter, Timers, timer,
                   Recordings, savedTimers, fileName, ret, trace>>

-----------------------------------------------------------------------------
(* The controller in its host *)

\* priorities and lifetimes others raise a timer to: just above the thresholds
Priorities == {PausePriority + 1}
Lifetimes == {PauseLifetime + 1}

\* lengths committed on the settings page
MenuLengths == {2}

\* The history variable held: a timer is held from the step that claims it
\* (TimerChange(tcAdd) inside cRecordControls::Start, the timer staying in
\* the list) until the controller clears a claim that points to it or the
\* timer leaves the host's list.  A claim that is overwritten by the next
\* one gives nothing up.
HeldStep ==
    held' = LET claimedNow == IF pc = "start" /\ m_liveTimer' # NoTimer
                                 /\ m_liveTimer' \in Timers' \ Timers
                              THEN {m_liveTimer'} ELSE {}
                released == IF pc # "start" /\ m_liveTimer # NoTimer
                               /\ m_liveTimer' = NoTimer
                            THEN {m_liveTimer} ELSE {}
            IN  ((held \ released) \cup claimedNow) \cap Timers'

\* every entry point but the tick and every notification, the host handing
\* out the timers of `ids`
Lifecycle(ids) ==
    \/ \E ch \in ChannelNumbers, live \in BOOLEAN : ChannelSwitch(ch, live)
    \/ \E o \in StartOutcomes, t \in ids, start \in StartTimes,
          single \in BOOLEAN, past \in BOOLEAN, ok \in BOOLEAN :
            RecordControlsStart(o, t, start, single, past, ok)
    \/ StopSkip
    \/ StopProcess
    \/ \E single \in BOOLEAN, past \in BOOLEAN, ok \in BOOLEAN :
            StopDelTimer(single, past, ok)
    \/ \E ok \in BOOLEAN : StopDelRecording(ok)
    \/ Stop
    \/ TimersSave
    \/ Return
    \/ \E t \in ids, start \in StartTimes :
            HostAddTimer(t, PausePriority, PauseLifetime, start)
    \/ \E t \in ids, single \in BOOLEAN, past \in BOOLEAN, ok \in BOOLEAN :
            HostDelTimer(t, single, past, ok)
    \/ \E change \in {"tcAdd", "tcDel"} : TimerChangeNull(change)
    \/ \E t \in ids, on \in BOOLEAN : HostRecording(t, on)
    \/ \E t \in ids, p \in Priorities : HostSetPriority(t, p)
    \/ \E t \in ids, l \in Lifetimes : HostSetLifetime(t, l)
    \/ \E f \in Files : HostDelRecording(f)
    \/ \E n \in {"EnablePlugin", "MaxTimeshiftLength"} : SetupLoad(n)
    \/ \E e \in {0, 1}, n \in MenuLengths : Store(e, n)

\* The life cycle with MaxTimers timers, in a host that can also lose a timer
\* without reporting it.  The tick is left to SpecTick: it
\* reads and writes m_mainThreadCounter, which nothing else touches, and
\* stops a recording through the same StopLiveRecording.
Drop == \E t \in TimerIds : HostDropTimer(t)

Next == (Lifecycle(TimerIds) \/ Drop) /\ HeldStep

Spec == Init /\ [][Next]_vars

\* The life cycle of a host that reports every change of its timer list.
NextNotified == Lifecycle(TimerIds) /\ HeldStep

SpecNotified == Init /\ [][NextNotified]_vars

\* The life cycle with the tick, every interleaving of the two, the host
\* handing out one timer.
TickTimers == {1}

Tick ==
    \/ \E inactive \in BOOLEAN, key \in Keys : MainThreadHook(inactive, key)
    \/ HookReset

NextTick == (Lifecycle(TickTimers) \/ Tick) /\ HeldStep

SpecTick == Init /\ [][NextTick]_vars

\* The settings alone: construction, the host loading setup entries with
\* any value, the settings page committing any length of its range.
SetupInstantRecordTimes == {150, 180}

SetupValues == { <<>>, <<"0">>, <<"1">>, <<"7">>, <<"2", "3">>, <<"2", "4">>,
                 <<"9", "9">>, <<"-", "5">>, <<"a", "b", "c">>, <<"7", "x">>,
                 <<" ", "3">>, <<"t", "r", "u", "e">> }

NextSetup ==
    /\ \/ \E n \in {"EnablePlugin", "MaxTimeshiftLength", "Other"},
             v \in SetupValues : SetupParse(n, v)
       \/ \E n \in {"EnablePlugin", "MaxTimeshiftLength"} : SetupLoad(n)
       \/ \E e \in {0, 1}, n \in MenuMinLength..MenuMaxLength : Store(e, n)
       \/ Return
    /\ HeldStep

SpecSetup == InitWith(SetupInstantRecordTimes) /\ [][NextSetup]_vars

\* Claiming a timer with every start time of the day and every length of
\* 1..23 hours, which the constructor takes from Setup.InstantRecordTime.
AllStartTimes == {h * 100 + m : h \in 0..23, m \in 0..59}
HourlyInstantRecordTimes == {60 * n : n \in MenuMinLength..MenuMaxLength}

NextStopTime ==
    /\ \/ ChannelSwitch(1, TRUE)
       \/ \E start \in AllStartTimes :
            RecordControlsStart("recording", 1, start, TRUE, FALSE, TRUE)
       \/ Return
    /\ HeldStep

SpecStopTime == InitWith(HourlyInstantRecordTimes) /\ [][NextStopTime]_vars

-----------------------------------------------------------------------------
(* The claims.  They are stated on the state an entry point returns in     *)
(* (pc = "ret"), against the state it was entered in (call.pre), and on    *)
(* the positions inside StopLiveRecording.  The predicates below are the   *)
(* claims' own reading of the terms they use.                              *)

\* promoted: priority above the pause-priority threshold or lifetime above
\* the pause-lifetime threshold
ClaimPromoted(tm) == tm.Priority > PausePriority \/ tm.Lifetime > PauseLifetime

InTrace(x) == \E i \in 1..Len(trace) : trace[i] = x
Count(x) == Cardinality({i \in 1..Len(trace) : trace[i] = x})

\* StopLiveRecording has returned to its caller
StopReturned == pc \in {"ret", "save", "reset"} /\ InTrace("StopLiveRecording")

\* the host found the recording and failed to delete it
DeleteFailed == InTrace("recording->Delete") /\ ~InTrace("Recordings.DelByName")

\* a live-view channel switch to a channel number <= 0 has returned
ZeroSwitchReturned ==
    /\ pc = "ret"
    /\ call.op = "ChannelSwitch"
    /\ call.args.liveView
    /\ call.args.channelNumber <= 0

\* at entry a timer was claimed, still in the host's list and not promoted
ClaimedAtEntry ==
    /\ call.pre.live # NoTimer
    /\ call.pre.live \in call.pre.Timers
    /\ ~ClaimPromoted(call.pre.timer[call.pre.live])

\* C1 as stated: with the plugin enabled, a live-view switch to a channel
\* number <= 0 while a timer is claimed, present and not promoted ends with
\* the timer removed from the timer list, the recording it produced removed
\* from the recording index and the claim empty; while no timer is claimed
\* it changes neither the timer list nor the index and reports success.
C1_Original ==
    (ZeroSwitchReturned /\ call.pre.enabled) =>
        /\ ClaimedAtEntry =>
            /\ Timers = call.pre.Timers \ {call.pre.live}
            /\ FileOf(call.pre.live) \notin Recordings
            /\ m_liveTimer = NoTimer
        /\ call.pre.live = NoTimer =>
            /\ Timers = call.pre.Timers
            /\ Recordings = call.pre.Recordings
            /\ ret = TRUE

\* C1 amended: as C1, but the recording is removed from the index only when
\* the host had an active record control for the timer at entry and its
\* deletion of the recording did not fail; the timer is removed, the claim
\* emptied and success reported in every case.
C1_ChannelZeroStops ==
    (ZeroSwitchReturned /\ call.pre.enabled) =>
        /\ ClaimedAtEntry =>
            /\ Timers = call.pre.Timers \ {call.pre.live}
            /\ (call.pre.timer[call.pre.live].Recording /\ ~DeleteFailed)
                    => FileOf(call.pre.live) \notin Recordings
            /\ m_liveTimer = NoTimer
            /\ ret = TRUE
        /\ call.pre.live = NoTimer =>
            /\ Timers = call.pre.Timers
            /\ timer = call.pre.timer
            /\ Recordings = call.pre.Recordings
            /\ m_liveTimer = NoTimer
            /\ ret = TRUE

\* C1 witness: a switch to channel <= 0 has deleted the claimed timer and
\* taken its recording out of the index
C1_Witness ==
    /\ ZeroSwitchReturned /\ call.pre.enabled /\ ClaimedAtEntry
    /\ FileOf(call.pre.live) \in call.pre.Recordings
    /\ FileOf(call.pre.live) \notin Recordings
    /\ call.pre.live \notin Timers
    /\ m_liveTimer = NoTimer

\* C2: in a host that reports every change of its timer list, no entry
\* point of the controller removes a timer from the list other than the one
\* claimed when it was entered, and where StopLiveRecording is about to
\* delete (pc = "del") the target is the claimed timer, a timer the
\* controller claimed and has not given up, it is in the list, and its
\* priority and lifetime are not above the pause thresholds.
C2_DeletesOnlyUnpromotedClaim ==
    /\ pc = "del" =>
        /\ m_liveTimer = call.pre.live
        /\ m_liveTimer \in held
        /\ m_liveTimer \in Timers
        /\ timer[m_liveTimer].Priority <= PausePriority
        /\ timer[m_liveTimer].Lifetime <= PauseLifetime
    /\ call.op \in {"ChannelSwitch", "MainThreadHook", "Stop", "Recording",
                    "SetupParse", "Store"} =>
        /\ call.pre.Timers \ Timers \subseteq {call.pre.live}
        /\ call.pre.Timers \ Timers # {} =>
                ~ClaimPromoted(call.pre.timer[call.pre.live])

\* C2 witness: the controller has deleted its claimed timer while another
\* timer is in the list
C2_Witness ==
    /\ pc = "delrec"
    /\ call.pre.live \notin Timers
    /\ Timers # {}
    /\ call.pre.Timers \ Timers = {call.pre.live}

\* C3: StopLiveRecording on a claimed timer that is in the list and promoted
\* (by priority or by lifetime) clears the claim and returns success; the
\* timer list, every timer (none skipped), the recording index and the
\* stopping flag are as they were, and nothing else was called.
C3_PromotedIsReleased ==
    (StopReturned /\ call.pre.enabled /\ call.pre.live # NoTimer
        /\ call.pre.live \in call.pre.Timers
        /\ ClaimPromoted(call.pre.timer[call.pre.live])) =>
        /\ m_liveTimer = NoTimer
        /\ ret = TRUE
        /\ Timers = call.pre.Timers
        /\ timer = call.pre.timer
        /\ ~timer[call.pre.live].Skipped
        /\ Recordings = call.pre.Recordings
        /\ m_stoppingRecording = FALSE
        /\ Count("StopLiveRecording") = 1
        /\ ~InTrace("Skip") /\ ~InTrace("Timers.Del")

\* C3 witness: a claimed timer promoted by its lifetime alone was released
C3_Witness ==
    /\ StopReturned /\ call.pre.enabled /\ call.pre.live # NoTimer
    /\ call.pre.live \in call.pre.Timers
    /\ call.pre.timer[call.pre.live].Lifetime > PauseLifetime
    /\ call.pre.timer[call.pre.live].Priority <= PausePriority
    /\ m_liveTimer = NoTimer
    /\ call.pre.live \in Timers

\* a channel switch that is not for live view has returned
NonLiveSwitchReturned ==
    pc = "ret" /\ call.op = "ChannelSwitch" /\ ~call.args.liveView

\* C4 as stated: a channel switch with liveView false stops and deletes a
\* claimed, non-promoted timer and clears the claim, like a live-view switch
\* to a channel number <= 0.
C4_Original ==
    (NonLiveSwitchReturned /\ call.pre.enabled /\ ClaimedAtEntry) =>
        /\ call.pre.live \notin Timers
        /\ m_liveTimer = NoTimer

\* C4 amended: a channel switch with liveView false is ignored: it calls
\* neither StartLiveRecording nor StopLiveRecording and leaves the claim,
\* the file name, the timers and the recording index as they were; only a
\* live-view switch to a channel number <= 0 stops the live recording.
C4_NonLiveSwitchIgnored ==
    /\ NonLiveSwitchReturned =>
        /\ trace = <<>>
        /\ ret = "none"
        /\ m_liveTimer = call.pre.live
        /\ m_fileName = call.pre.file
        /\ Timers = call.pre.Timers
        /\ timer = call.pre.timer
        /\ Recordings = call.pre.Recordings
    /\ (call.op = "ChannelSwitch" /\ ~call.args.liveView) => pc = "ret"
    /\ (ZeroSwitchReturned /\ call.pre.enabled /\ ClaimedAtEntry) =>
        /\ call.pre.live \notin Timers
        /\ m_liveTimer = NoTimer

\* C4 witness: a non-live switch returned with the claimed, non-promoted
\* timer still in the list and still claimed
C4_Witness ==
    /\ NonLiveSwitchReturned /\ call.pre.enabled /\ ClaimedAtEntry
    /\ call.pre.timer[call.pre.live].Recording
    /\ m_liveTimer = call.pre.live
    /\ m_liveTimer \in Timers

\* C5: a channel switch delivered while the plugin is disabled returns at
\* once: cRecordControls::Start is not called, the starting flag is not set,
\* no timer or recording is deleted, the claim is as it was, and the
\* operation invoked for a live-view switch reports success.
C5_DisabledSwitchIgnored ==
    (call.op = "ChannelSwitch" /\ ~call.pre.enabled) =>
        /\ pc = "ret"
        /\ ~InTrace("cRecordControls::Start")
        /\ ~InTrace("Timers.Del")
        /\ m_startingRecording = FALSE
        /\ m_stoppingRecording = FALSE
        /\ m_liveTimer = call.pre.live
        /\ m_fileName = call.pre.file
        /\ Timers = call.pre.Timers
        /\ timer = call.pre.timer
        /\ Recordings = call.pre.Recordings
        /\ call.args.liveView => ret = TRUE

\* C5 witness: a live-view switch to a known channel, and one to channel 0
\* with a claimed timer, returned while the plugin was disabled
C5_Witness ==
    /\ pc = "ret" /\ call.op = "ChannelSwitch" /\ ~call.pre.enabled
    /\ call.args.liveView
    /\ call.args.channelNumber \in Channels
    /\ call.pre.live \in call.pre.Timers
    /\ ret = TRUE

\* minutes since midnight of an HHMM value, and back
ClaimMinutes(hhmm) == (hhmm \div 100) * 60 + (hhmm % 100)
ClaimHHMM(minutes) == (minutes \div 60) * 100 + (minutes % 60)
ValidHHMM(hhmm) == (hhmm \div 100) \in 0..23 /\ (hhmm % 100) \in 0..59

\* a live-view switch has started a recording and its timer was claimed
ClaimReturned ==
    /\ pc = "ret"
    /\ call.op = "ChannelSwitch"
    /\ InTrace("cRecordControls::Start")
    /\ m_liveTimer # NoTimer
    /\ m_liveTimer \notin call.pre.Timers

\* C6: when a timer with a valid HHMM start time S is claimed while the
\* configured length H is in 1..23, the stop time written to it is a valid
\* HHMM value, the HHMM encoding of (minutes(S) + H*60) mod 1440.
C6_StopTime ==
    (ClaimReturned /\ ValidHHMM(timer[m_liveTimer].Start)
        /\ g_maxLength \in 1..23) =>
        /\ ValidHHMM(timer[m_liveTimer].Stop)
        /\ timer[m_liveTimer].Stop =
              ClaimHHMM((ClaimMinutes(timer[m_liveTimer].Start)
                         + g_maxLength * 60) % 1440)

\* C6 witness: a timer starting at 2300 was claimed with a length of 3 hours
\* and stops at 0200
C6_Witness ==
    /\ ClaimReturned
    /\ timer[m_liveTimer].Start = 2300
    /\ g_maxLength = 3
    /\ timer[m_liveTimer].Stop = 200

\* a tick has returned
TickReturned == pc = "ret" /\ call.op = "MainThreadHook"

\* C7 as stated: counting from a fresh counter, the 60th tick, with a timer
\* claimed and the user idle, shows the confirmation prompt once.
C7_Original ==
    (TickReturned /\ call.pre.counter = IdleTicks - 1
        /\ call.pre.live # NoTimer /\ call.args.inactive) =>
        Count("Confirm") = 1

\* C7 amended: counting from a fresh counter, none of the first 60 ticks
\* shows the prompt or stops the recording, each only counts; the 61st tick
\* resets the counter and shows the prompt exactly once if a timer is claimed
\* and the user idle, and not otherwise; StopLiveRecording is called exactly
\* once if the prompt timed out and not at all if the user answered it or
\* there was no prompt.
C7_SixtyFirstTickPrompts ==
    /\ m_mainThreadCounter \in 0..(IdleTicks + 1)
    /\ pc = "idle" => m_mainThreadCounter \in 0..IdleTicks
    /\ (TickReturned /\ call.pre.counter < IdleTicks) =>
        /\ m_mainThreadCounter = call.pre.counter + 1
        /\ trace = <<>>
        /\ m_liveTimer = call.pre.live
    /\ (TickReturned /\ call.pre.counter = IdleTicks) =>
        /\ m_mainThreadCounter = 0
        /\ Count("Confirm") =
              IF call.pre.live # NoTimer /\ call.args.inactive THEN 1 ELSE 0
        /\ Count("StopLiveRecording") =
              IF call.pre.live # NoTimer /\ call.args.inactive
                 /\ call.args.key = "kNone" THEN 1 ELSE 0
        /\ Count("StopLiveRecording") = 0 => m_liveTimer = call.pre.live

\* C7 witness: the 61st tick showed the prompt, it timed out, and the
\* recording was stopped and its timer deleted
C7_Witness ==
    /\ TickReturned /\ call.pre.counter = IdleTicks
    /\ call.pre.live \in call.pre.Timers
    /\ call.args.inactive /\ call.args.key = "kNone"
    /\ Count("Confirm") = 1 /\ Count("StopLiveRecording") = 1
    /\ m_liveTimer = NoTimer /\ call.pre.live \notin Timers
    /\ m_mainThreadCounter = 0

\* somebody else has deleted the claimed timer and the notification returned
ClaimedTimerDeleted ==
    /\ pc = "ret"
    /\ call.op = "TimerChange"
    /\ call.args.Change = "tcDel"
    /\ call.pre.live # NoTimer
    /\ call.args.Timer = call.pre.live

\* C8: a timer-deleted notification for the claimed timer outside
\* StopLiveRecording clears the claim, and changes the recording index only
\* if the timer is a single event, not recording and past its stop time, and
\* then only by the recording at the stored file name; the notification
\* inside StopLiveRecording's own Timers.Del (stopping flag set) leaves index
\* and claim alone, and one stop asks for at most one deletion, of the
\* recording named by the record control.
C8_DeletedNotification ==
    /\ ClaimedTimerDeleted =>
        /\ m_liveTimer = NoTimer
        /\ Recordings \subseteq call.pre.Recordings
        /\ Recordings # call.pre.Recordings =>
            /\ call.args.single
            /\ ~call.pre.timer[call.pre.live].Recording
            /\ call.args.past
            /\ Recordings = call.pre.Recordings \ {call.pre.file}
    /\ pc = "delrec" =>
        /\ m_stoppingRecording
        /\ m_liveTimer = call.pre.live
        /\ m_liveTimer # NoTimer
        /\ Recordings = call.pre.Recordings
    /\ (StopReturned /\ InTrace("Timers.Del")) =>
        /\ Count("recording->Delete") <= 1
        /\ call.pre.Recordings \ Recordings \subseteq {FileOf(call.pre.live)}
        /\ m_liveTimer = NoTimer
        /\ ~m_stoppingRecording

\* C8 witness: the claimed timer, single, past and not recording, was deleted
\* by somebody else and its recording went with it
C8_Witness ==
    /\ ClaimedTimerDeleted
    /\ call.args.single
    /\ ~call.pre.timer[call.pre.live].Recording
    /\ call.args.past
    /\ call.pre.file \in call.pre.Recordings
    /\ call.pre.file \notin Recordings
    /\ m_liveTimer = NoTimer

\* C8 witness of the re-entrant case: StopLiveRecording has deleted a timer
\* that was single, past and no longer recording, and the recording at the
\* stored file name is still in the index
C8_WitnessReentrant ==
    /\ pc = "delrec"
    /\ call.pre.file \in Recordings
    /\ fileName = NoFile
    /\ m_liveTimer = call.pre.live

\* C9 as stated: the set of timers claimed and not given up never has more
\* than one element.
C9_Original == Cardinality(held) <= 1

\* C10 as stated: the configured length is always in 1..23.
C10_Original == g_maxLength \in MenuMinLength..MenuMaxLength

\* the decimal string of a length of 1..23, and the string of a flag
ClaimDecimal(n) ==
    IF n < 10 THEN <<Digits[n + 1]>>
    ELSE <<Digits[(n \div 10) + 1], Digits[(n % 10) + 1]>>
ClaimFlag(b) == IF b THEN <<"1">> ELSE <<"0">>

SetupParseReturned == pc = "ret" /\ call.op = "SetupParse"

\* C11: committing the settings page with a flag e and a length n of 1..23
\* sets both values and persists "0"/"1" and the decimal string of n;
\* loading an "EnablePlugin" entry yields true exactly for the string "1";
\* loading a "MaxTimeshiftLength" entry that is the decimal string of a
\* length of 1..23 yields that length; so loading the two persisted entries
\* yields the committed values.
C11_SettingsRoundTrip ==
    /\ (pc = "ret" /\ call.op = "Store") =>
        /\ g_enablePlugin = (call.args.newEnablePlugin # 0)
        /\ g_maxLength = call.args.newMaxLength
        /\ settings.EnablePlugin = ClaimFlag(call.args.newEnablePlugin # 0)
        /\ settings.MaxTimeshiftLength = ClaimDecimal(call.args.newMaxLength)
    /\ settings.EnablePlugin \in {NoEntry, <<"0">>, <<"1">>}
    /\ settings.MaxTimeshiftLength \in
          {NoEntry} \cup {ClaimDecimal(n) : n \in MenuMinLength..MenuMaxLength}
    /\ (SetupParseReturned /\ call.args.Name = "EnablePlugin") =>
        /\ g_enablePlugin = (call.args.Value = <<"1">>)
        /\ g_maxLength = call.pre.maxLength
        /\ ret = TRUE
    /\ (SetupParseReturned /\ call.args.Name = "MaxTimeshiftLength") =>
        /\ \A n \in MenuMinLength..MenuMaxLength :
              call.args.Value = ClaimDecimal(n) => g_maxLength = n
        /\ g_enablePlugin = call.pre.enabled
        /\ ret = TRUE

\* C11 witness: the page was committed with a length of 23, another value
\* was loaded since, and the load of the persisted entry "23" yields 23 again
C11_Witness ==
    /\ SetupParseReturned
    /\ call.args.Name = "MaxTimeshiftLength"
    /\ call.args.Value = settings.MaxTimeshiftLength
    /\ settings.MaxTimeshiftLength = <<"2", "3">>
    /\ call.pre.maxLength # 23
    /\ g_maxLength = 23

\* a timer-change notification has returned
TimerChangeReturned == pc = "ret" /\ call.op = "TimerChange"

\* the controller's own state is as it was when the entry point was entered
ControllerUntouched ==
    /\ m_liveTimer = call.pre.live
    /\ m_fileName = call.pre.file
    /\ m_startingRecording = FALSE
    /\ m_stoppingRecording = FALSE

\* C12: a timer-added notification for a timer somebody else added (starting
\* flag false) leaves claim, file name and flags alone and the timer with the
\* priority and stop time the host gave it; a notification without a timer
\* changes nothing at all; a timer added inside the controller's own start
\* request (starting flag true) is the claimed timer afterwards and has
\* priority TRANSFERPRIORITY - 1.
C12_TimerAdded ==
    /\ (TimerChangeReturned /\ call.args.Change = "tcAdd"
            /\ call.args.Timer # NoTimer) =>
        /\ ControllerUntouched
        /\ timer[call.args.Timer].Priority = PausePriority
        /\ timer[call.args.Timer].Stop =
              ClaimHHMM((ClaimMinutes(timer[call.args.Timer].Start) + 150) % 1440)
        /\ \A u \in TimerIds \ {call.args.Timer} : timer[u] = call.pre.timer[u]
    /\ (TimerChangeReturned /\ call.args.Timer = NoTimer) =>
        /\ ControllerUntouched
        /\ timer = call.pre.timer
        /\ Timers = call.pre.Timers
        /\ Recordings = call.pre.Recordings
    /\ pc = "start" => m_startingRecording
    /\ (pc = "ret" /\ call.op = "ChannelSwitch") =>
        \A t \in Timers \ call.pre.Timers :
            /\ InTrace("cRecordControls::Start")
            /\ m_liveTimer = t
            /\ timer[t].Priority = TRANSFERPRIORITY - 1

\* C12 witness: somebody else added a timer while another one was claimed,
\* and the claim did not move
C12_Witness ==
    /\ TimerChangeReturned /\ call.args.Change = "tcAdd"
    /\ call.args.Timer # NoTimer
    /\ call.pre.live \in call.pre.Timers
    /\ call.args.Timer \in Timers
    /\ m_liveTimer = call.pre.live
    /\ timer[m_liveTimer].Priority = TRANSFERPRIORITY - 1

\* where x is in the calls made so far, and: every y made so far came after
\* an x
Pos(x) == CHOOSE i \in 1..Len(trace) : trace[i] = x
Before(x, y) == InTrace(y) => (InTrace(x) /\ Pos(x) < Pos(y))

\* C13: StopLiveRecording works in a fixed order: at the Skip() the file
\* name has been taken from the record control and the stopping flag is set;
\* at Timers.Del the host has processed the stop and the timer no longer
\* records; at the deletion of the recording the timer is out of the list
\* and the index is still as it was at entry; so the recording deleted is
\* never one whose timer is still recording.
C13_StopOrder ==
    /\ Before("StopLiveRecording", "GetRecordControl")
    /\ Before("GetRecordControl", "Skip")
    /\ Before("Skip", "Process")
    /\ Before("Process", "Timers.Del")
    /\ Before("Timers.Del", "recording->Delete")
    /\ Before("recording->Delete", "Recordings.DelByName")
    /\ pc = "skip" =>
        /\ m_stoppingRecording
        /\ InTrace("GetRecordControl")
        /\ m_liveTimer \in Timers
        /\ ~timer[m_liveTimer].Skipped
        /\ fileName = IF timer[m_liveTimer].Recording
                      THEN FileOf(m_liveTimer) ELSE NoFile
    /\ pc = "process" =>
        /\ m_stoppingRecording
        /\ m_liveTimer \in Timers
        /\ timer[m_liveTimer].Skipped
        /\ timer[m_liveTimer].Recording = call.pre.timer[m_liveTimer].Recording
    /\ pc = "del" =>
        /\ m_stoppingRecording
        /\ m_liveTimer \in Timers
        /\ ~timer[m_liveTimer].Recording
        /\ Recordings = call.pre.Recordings
    /\ pc = "delrec" =>
        /\ m_stoppingRecording
        /\ call.pre.live \notin Timers
        /\ Recordings = call.pre.Recordings
        /\ \A t \in TimerIds : FileOf(t) = fileName =>
              (t \notin Timers /\ ~timer[t].Recording)

\* C13 witness: the timer was recording at entry, has been skipped, stopped
\* and deleted in that order, and its recording is about to be deleted
C13_Witness ==
    /\ pc = "delrec"
    /\ call.pre.timer[call.pre.live].Recording
    /\ fileName = FileOf(call.pre.live)
    /\ fileName \in Recordings
    /\ trace = <<"StopLiveRecording", "GetRecordControl", "Skip", "Process",
                 "Timers.Del">>

\* StopLiveRecording was called with the plugin enabled and a claim on a
\* timer that is not in the host's list
StoppedStaleClaim ==
    /\ InTrace("StopLiveRecording")
    /\ call.pre.enabled
    /\ call.pre.live # NoTimer
    /\ call.pre.live \notin call.pre.Timers

\* C14 for a reference that matches no timer of the list: StopLiveRecording
\* with the plugin enabled and a claim whose reference is not found in the
\* host's list returns false at once with the claim cleared: it asks for no record control, skips and deletes no timer,
\* deletes no recording, and the stopping flag stays false.
C14_StaleClaim ==
    StoppedStaleClaim =>
        /\ pc \in {"ret", "save", "reset"}
        /\ ret = FALSE
        /\ m_liveTimer = NoTimer
        /\ m_fileName = call.pre.file
        /\ m_stoppingRecording = FALSE
        /\ fileName = NoFile
        /\ Timers = call.pre.Timers
        /\ timer = call.pre.timer
        /\ Recordings = call.pre.Recordings
        /\ Count("StopLiveRecording") = 1
        /\ ~InTrace("GetRecordControl") /\ ~InTrace("Skip")
        /\ ~InTrace("Process") /\ ~InTrace("Timers.Del")
        /\ ~InTrace("Recordings.GetByName")

\* C14 witness of that case: the claimed timer had left the list, its recording and
\* another timer were still there, and the stop returned false
C14_Witness ==
    /\ StoppedStaleClaim
    /\ pc = "ret"
    /\ ret = FALSE
    /\ call.pre.Timers # {}
    /\ FileOf(call.pre.live) \in Recordings
    /\ m_liveTimer = NoTimer

\* StopLiveRecording was called with the plugin enabled and a claim on a
\* timer that has left the host's list since it was claimed: the timer now
\* under that reference, if any, is not one the controller claimed
StoppedLostClaim ==
    /\ InTrace("StopLiveRecording")
    /\ call.pre.enabled
    /\ call.pre.live # NoTimer
    /\ call.pre.live \notin call.pre.held

\* C14 as stated: when the claimed timer is no longer in the host's list,
\* StopLiveRecording reports failure, clears the claim, and deletes no timer
\* and no recording.
C14_Original ==
    StoppedLostClaim =>
        /\ pc \in {"ret", "save", "reset"}
        /\ ret = FALSE
        /\ m_liveTimer = NoTimer
        /\ m_stoppingRecording = FALSE
        /\ Timers = call.pre.Timers
        /\ Recordings = call.pre.Recordings

\* StopLiveRecording has deleted the timer and returned
StopCompleted == StopReturned /\ InTrace("Timers.Del")

\* the recording was looked up and not found
RecordingNotFound ==
    InTrace("Recordings.GetByName") /\ ~InTrace("recording->Delete")

\* no file name was captured from the record control
NoFileCaptured == ~InTrace("Recordings.GetByName")

\* C15: once StopLiveRecording has deleted the timer it ends released,
\* whatever becomes of the recording: the timer is out of the list, the claim
\* empty, the stopping flag false and the result true; when the host fails to
\* delete the recording, the recording is not found, or no file name was
\* captured, the index is left as it was, and the recording is looked up and
\* its deletion asked for at most once.
C15_ReleasedOnFailure ==
    /\ pc = "delrec" => ENABLED StopDelRecording(FALSE)
    /\ StopCompleted =>
        /\ call.pre.live \notin Timers
        /\ m_liveTimer = NoTimer
        /\ m_stoppingRecording = FALSE
        /\ ret = TRUE
        /\ Count("Recordings.GetByName") <= 1
        /\ Count("recording->Delete") <= 1
        /\ Count("Timers.Del") = 1
        /\ (DeleteFailed \/ RecordingNotFound \/ NoFileCaptured)
              => Recordings = call.pre.Recordings

\* C15 witness: the host failed to delete the recording; it is still in the
\* index, and the stop ended released and successful
C15_Witness ==
    /\ StopCompleted
    /\ DeleteFailed
    /\ FileOf(call.pre.live) \in Recordings
    /\ call.pre.live \notin Timers
    /\ m_liveTimer = NoTimer
    /\ ret = TRUE

\* C15 witness of the other two cases: the recording had left the index, and
\* the timer was not recording
C15_WitnessNotFound == StopCompleted /\ RecordingNotFound /\ ret = TRUE
C15_WitnessNoFile == StopCompleted /\ NoFileCaptured /\ ret = TRUE

\* a live-view switch to a positive channel number the channel directory
\* does not have, with the plugin enabled
UnknownChannelSwitch ==
    /\ call.op = "ChannelSwitch"
    /\ call.args.liveView
    /\ call.args.channelNumber > 0
    /\ call.args.channelNumber \notin Channels
    /\ call.pre.enabled

\* C16: with the plugin enabled, a live-view switch to a positive channel
\* number that Channels.GetByNumber does not find returns false straight
\* away: cRecordControls::Start is not called, the starting flag is not set,
\* and claim, file name, timers and recording index are as they were.
C16_UnknownChannel ==
    UnknownChannelSwitch =>
        /\ pc = "ret"
        /\ ret = FALSE
        /\ trace = <<"StartLiveRecording", "GetByNumber">>
        /\ ControllerUntouched
        /\ Timers = call.pre.Timers
        /\ timer = call.pre.timer
        /\ Recordings = call.pre.Recordings

\* C16 witness: the switch to the unknown channel returned false while a
\* timer was claimed, and the claim is still there
C16_Witness ==
    /\ UnknownChannelSwitch
    /\ pc = "ret"
    /\ ret = FALSE
    /\ call.pre.live \in call.pre.Timers
    /\ m_liveTimer = call.pre.live

\* a recording event for a recording somebody else started or ended has
\* returned
RecordingReturned == pc = "ret" /\ call.op = "Recording"

\* the timers the controller's start request added and that are recording
StartedRecording ==
    {t \in Timers \ call.pre.Timers : timer[t].Recording}

\* C17: a recording event outside the controller's own start request
\* (starting flag false), start or stop, leaves the stored file name, the
\* claim and both flags alone; so does the stop event the host delivers
\* inside StopLiveRecording; a start request replaces the stored file name
\* exactly when the host reports a started recording inside it, by the file
\* name of that event.
C17_RecordingEvent ==
    /\ RecordingReturned =>
        /\ ControllerUntouched
        /\ Timers = call.pre.Timers
    /\ InTrace("StopLiveRecording") =>
        /\ m_fileName = call.pre.file
        /\ m_startingRecording = FALSE
    /\ (pc = "ret" /\ call.op = "ChannelSwitch"
            /\ InTrace("cRecordControls::Start")) =>
        /\ \A t \in StartedRecording : m_fileName = FileOf(t)
        /\ StartedRecording = {} => m_fileName = call.pre.file
        /\ m_startingRecording = FALSE

\* C17 witness: somebody else started a recording while the controller had
\* another file name stored, and the stored file name stayed
C17_Witness ==
    /\ RecordingReturned
    /\ call.args.On
    /\ call.pre.file # NoFile
    /\ call.args.FileName # call.pre.file
    /\ call.args.FileName \in Recordings
    /\ m_fileName = call.pre.file

\* C17 witness of the replacement: the controller's start request replaced a
\* stored file name by that of the recording it started
C17_WitnessReplaced ==
    /\ pc = "ret" /\ call.op = "ChannelSwitch"
    /\ StartedRecording # {}
    /\ call.pre.file # NoFile
    /\ m_fileName # call.pre.file

\* the cleanup of lines 315-325 ran: the claimed timer was deleted by
\* somebody else, was a single event, not recording and past its stop time
CleanupRan ==
    /\ ClaimedTimerDeleted
    /\ call.args.single
    /\ ~call.pre.timer[call.pre.live].Recording
    /\ call.args.past

\* C18 as stated: whenever the cleanup after an external deletion looks up a
\* recording by the stored file name, that name is not empty and is the one
\* reported for the recording of the claimed timer.
C18_Original ==
    CleanupRan =>
        /\ call.pre.file # NoFile
        /\ call.pre.file = FileOf(call.pre.live)

\* C19: both flags are false whenever the controller is not inside
\* cRecordControls::Start or between the Skip() and the deletion of the
\* recording, so on every return to the host; the starting flag is true
\* exactly during the host's start call, the stopping flag exactly from just
\* before the Skip() to the deletion of the recording, and never both.
C19_FlagsTransient ==
    /\ pc \in {"idle", "ret", "save", "reset", "halted"} =>
        (~m_startingRecording /\ ~m_stoppingRecording)
    /\ m_startingRecording <=> pc = "start"
    /\ m_stoppingRecording <=> pc \in {"skip", "process", "del", "delrec"}
    /\ ~(m_startingRecording /\ m_stoppingRecording)

\* C19 witness: a channel switch is about to return to the host after a stop
\* that went through Skip() and both deletions, and both flags are false
C19_Witness ==
    /\ pc = "ret"
    /\ call.op = "ChannelSwitch"
    /\ InTrace("Skip")
    /\ InTrace("Recordings.DelByName")
    /\ ~m_startingRecording /\ ~m_stoppingRecording

\* Stop() is about to return to the host
ShutdownReturned == pc = "ret" /\ call.op = "Stop"

\* C20: Stop() calls StopLiveRecording first and Timers.Save() after it
\* returned, and saves the list as StopLiveRecording left it; with the plugin
\* enabled and a claimed, non-promoted timer in the list at entry, the saved
\* list does not contain that timer and the claim is empty.
C20_ShutdownSavesAfterStop ==
    /\ call.op = "Stop" =>
        /\ Before("StopLiveRecording", "Timers.Save")
        /\ InTrace("Timers.Save") => Pos("Timers.Save") = Len(trace)
        /\ Count("Timers.Save") <= 1
    /\ ShutdownReturned =>
        /\ InTrace("Timers.Save")
        /\ savedTimers = Timers
        /\ (call.pre.enabled /\ ClaimedAtEntry) =>
            /\ call.pre.live \notin savedTimers
            /\ savedTimers = call.pre.Timers \ {call.pre.live}
            /\ m_liveTimer = NoTimer

\* C20 witness: at shutdown the claimed timer was deleted and the list was
\* saved with the other timer only
C20_Witness ==
    /\ ShutdownReturned
    /\ call.pre.enabled /\ ClaimedAtEntry
    /\ savedTimers # {}
    /\ call.pre.live \notin savedTimers
    /\ m_liveTimer = NoTimer

====
